---- MODULE Spec2Model ----
(***************************************************************************)
(* A model of the UMKM catalogue RAG application: the HTTP front-end       *)
(* (server.py, one long-lived process) and the interactive front-end       *)
(* (ai.py, a Streamlit script that is re-executed from the top on every    *)
(* interaction).  Both share the index directory faiss_db and the staging  *)
(* directory temp; each has its own process environment.                   *)
(*                                                                         *)
(* Every handler is one atomic action (requests are serialized).  What the *)
(* third-party libraries answer is an input of the action: the outcome of  *)
(* each extraction backend, of chunking / embedding / persisting, of the   *)
(* similarity search and of each model invocation.                         *)
(***************************************************************************)
EXTENDS Integers, Sequences, FiniteSets, TLC

VARIABLES
    faiss_db,      \* the persisted index in DB_DIR
    temp,          \* names of the files in UPLOAD_DIR
    vectorstore,   \* per process: the module-level in-memory index handle
    environ,       \* per process: os.environ["GEMINI_MODEL"] ("unset" if absent)
    gemini_model,  \* server.py's _gemini_model, which chat_model and chain are built on
    uploads,       \* number of batches added to an index so far
    last,          \* what the most recent handler was given and what it did
    acked,         \* history: batches whose upload returned success
    remembered     \* history: per process, the model that last won a fallback

vars == <<faiss_db, temp, vectorstore, environ, gemini_model, uploads, last,
          acked, remembered>>

-----------------------------------------------------------------------------
(* Bounds *)

MaxUploads == 2

-----------------------------------------------------------------------------
(* Processes, files, models *)

Procs == {"server", "ai"}

FileNames == {"a.pdf", "notes.txt"}

\* file.filename.lower().endswith(".pdf")
EndsWithPdf(name) == name = "a.pdf"

GEMINI_DEFAULT == "gemini-2.5-flash"

\* What GEMINI_MODEL may be when a process starts.
StartEnviron == {"unset", "gemini-1.5-flash"}

\* os.environ.get("GEMINI_MODEL", _GEMINI_DEFAULT)
EnvironGet(e) == IF e = "unset" THEN GEMINI_DEFAULT ELSE e

\* _gemini_model as process p's handler sees it: server.py reads the environment
\* once, at import; ai.py is executed from the top for every interaction.
ModuleModel(p) ==
    IF p = "ai" THEN EnvironGet(environ["ai"]) ELSE gemini_model

\* _GEMINI_MODEL_CANDIDATES, built from _gemini_model when the module is executed
GEMINI_MODEL_CANDIDATES(m) ==
    <<m, "gemini-2.5-flash", "gemini-2.5-pro", "gemini-2.0-flash", "gemini-2.0-pro">>

-----------------------------------------------------------------------------
(* The index: absent, or a set of batch identifiers (0 is a batch that was  *)
(* indexed before the processes started).                                  *)

NoIndex == [present |-> FALSE, entries |-> {}]

Index(s) == [present |-> TRUE, entries |-> s]

\* load_faiss_or_none: the persisted index, or None on any load failure
load_faiss_or_none(db) == db

\* FAISS.from_documents / add_documents of one batch
AddDocuments(vs, b) ==
    IF ~vs.present THEN Index({b}) ELSE Index(vs.entries \cup {b})

ntotal(vs) == Cardinality(vs.entries)

NoLast ==
    [op |-> "none", proc |-> "none", result |-> "none",
     \* an upload: the file name, whether the staged file could be read back and
     \* its first bytes, what each loader does, the loaders invoked, the fault
     \* after extraction, the batch added
     name |-> "none", read_ok |-> FALSE, header |-> "none",
     loads |-> <<>>, tried |-> 0, fault |-> "none", batch |-> -1,
     \* a query: whether the search returned and how many documents, the model
     \* the chain was built on, the invocations made, how they ended, the text
     \* returned, and remembered[proc] when the handler started
     search_ok |-> FALSE, docs_found |-> 0, chat |-> "none", attempts |-> <<>>,
     status |-> "none", text |-> "none", prior |-> "none"]

-----------------------------------------------------------------------------
(* Upload (admin_upload in server.py, the Admin branch of ai.py) *)

\* The first five bytes read back from the staged file.
Headers == {"%PDF-", "%PDF", "", "GIF89"}

StartsWithFourBytes(header) == header \in {"%PDF-", "%PDF"}

\* header.startswith(b"%PDF-")
StartsWithMagic(header) == header = "%PDF-"

\* What one extraction backend does with the staged file.
LoadOutcomes == {"raise", "empty", "docs"}

\* (PyPDFLoader, PyMuPDFLoader, PDFPlumberLoader)
NumLoaders == 3

\* What goes wrong after extraction: nothing, the splitter raises, the
\* embedding call inside from_documents / add_documents raises, or
\* save_local raises.
Faults == {"none", "split", "embed", "save"}

\* The loader loop: a loader that raises is skipped, the first loader that
\* returns ends the loop whatever it returned.  docs is "None" when every
\* loader raised; tried is the number of loaders invoked.
RECURSIVE LoaderLoop(_, _)
LoaderLoop(loads, i) ==
    IF i > Len(loads) THEN [docs |-> "None", tried |-> Len(loads)]
    ELSE IF loads[i] = "raise" THEN LoaderLoop(loads, i + 1)
    ELSE [docs |-> loads[i], tried |-> i]

\* if not docs
NotDocs(docs) == docs \in {"None", "empty"}

\* The body of the upload handler from the write of the staged file on.
\* vs0 is the module-level vectorstore the handler starts with, b the
\* identifier of the batch this upload would add.
Ingest(vs0, name, header, read_ok, loads, fault, b) ==
    LET staged == temp \cup {name}
        removed == staged \ {name}
        ld == LoaderLoop(loads, 1)
        vs1 == AddDocuments(vs0, b)
        base == [result |-> "ok", temp |-> staged, vs |-> vs0, db |-> faiss_db,
                 tried |-> 0, added |-> FALSE]
    IN  IF ~read_ok
          THEN [base EXCEPT !.result = "FailedToRead", !.temp = removed]
        ELSE IF ~StartsWithMagic(header)
          THEN [base EXCEPT !.result = "InvalidPdfFile", !.temp = removed]
        ELSE IF NotDocs(ld.docs)
          THEN [base EXCEPT !.result = "CannotReadPdf", !.temp = removed,
                            !.tried = ld.tried]
        ELSE IF fault \in {"split", "embed"}
          THEN [base EXCEPT !.result = "InternalError", !.tried = ld.tried]
        ELSE IF fault = "save"
          THEN [base EXCEPT !.result = "InternalError", !.tried = ld.tried,
                            !.vs = vs1, !.added = TRUE]
        ELSE [base EXCEPT !.tried = ld.tried, !.vs = vs1, !.db = vs1,
                          !.added = TRUE]

\* The variables after an upload by process p with outcome r.  last keeps the
\* loader outcomes and the fault only when the handler got that far.
Uploaded(p, r, name, header, read_ok, loads, fault) ==
    LET extracted == r.result \in {"ok", "InternalError"}
    IN  /\ r.added => uploads < MaxUploads
        /\ temp' = r.temp
        /\ vectorstore' = [vectorstore EXCEPT ![p] = r.vs]
        /\ faiss_db' = r.db
        /\ uploads' = IF r.added THEN uploads + 1 ELSE uploads
        /\ acked' = IF r.result = "ok" THEN acked \cup {uploads + 1} ELSE acked
        /\ last' = [NoLast EXCEPT
                      !.op = "upload", !.proc = p, !.result = r.result,
                      !.name = name, !.read_ok = read_ok,
                      !.header = IF read_ok THEN header ELSE "none",
                      !.loads = IF r.tried > 0 THEN loads ELSE <<>>,
                      !.tried = r.tried,
                      !.fault = IF extracted THEN fault ELSE "none",
                      !.batch = IF r.added THEN uploads + 1 ELSE -1]
        /\ UNCHANGED <<environ, gemini_model, remembered>>

\* What the environment gives one upload of a .pdf name: the staged file
\* cannot be read back; or its first bytes; and, for a file with the magic
\* header, what each loader does and what goes wrong after extraction.
UploadInputs ==
    {[header |-> "", read_ok |-> FALSE, loads |-> [i \in 1..NumLoaders |-> "raise"],
      fault |-> "none"]}
    \cup {[header |-> h, read_ok |-> TRUE, loads |-> [i \in 1..NumLoaders |-> "raise"],
           fault |-> "none"] : h \in {x \in Headers : ~StartsWithMagic(x)}}
    \cup {[header |-> h, read_ok |-> TRUE, loads |-> l, fault |-> f] :
            h \in {x \in Headers : StartsWithMagic(x)},
            l \in [1..NumLoaders -> LoadOutcomes], f \in Faults}

\* POST /admin/upload.  The handler works on the global vectorstore that was
\* loaded when the module was imported.
admin_upload ==
    \E name \in FileNames :
        IF ~EndsWithPdf(name)
        THEN Uploaded("server",
                      [result |-> "OnlyPdfSupported", temp |-> temp,
                       vs |-> vectorstore["server"], db |-> faiss_db,
                       tried |-> 0, added |-> FALSE],
                      name, "", FALSE, <<>>, "none")
        ELSE \E u \in UploadInputs :
                Uploaded("server",
                         Ingest(vectorstore["server"], name, u.header, u.read_ok,
                                u.loads, u.fault, uploads + 1),
                         name, u.header, u.read_ok, u.loads, u.fault)

\* The Admin branch of ai.py.  The script runs from the top, so vectorstore
\* is load_faiss_or_none() of this run; file_uploader(type=["pdf"]) offers
\* only .pdf names.
AiAdminUpload ==
    \E name \in {n \in FileNames : EndsWithPdf(n)}, u \in UploadInputs :
        Uploaded("ai",
                 Ingest(load_faiss_or_none(faiss_db), name, u.header, u.read_ok,
                        u.loads, u.fault, uploads + 1),
                 name, u.header, u.read_ok, u.loads, u.fault)

-----------------------------------------------------------------------------
(* Model invocation with fallback (_invoke_chain_with_fallback in          *)
(* server.py, the same loop inline in ai.py)                               *)

\* What one invocation of a chain does: it returns text, raises NotFound, or
\* raises something else.
InvokeOutcomes == {"ok", "NotFound", "Error"}

\* The text a model returns, by what json.loads and the handlers make of it:
\*   object           a JSON object with intent, answer, umkm_list and
\*                    recommendations, intent one of the three, answer a string
\*   object_partial   a non-empty JSON object with a field missing or an intent
\*                    outside the three; the fields present are well typed
\*   object_answer    a non-empty JSON object whose answer is not a string
\*                    (null, a number) and whose lists are empty or missing
\*   object_empty     {}
\*   null             JSON null
\*   value_falsy      0, false, "", []
\*   value_truthy     a non-zero number, true, a non-empty string or array
\*   text             not JSON
Texts == {"object", "object_partial", "object_answer", "object_empty", "null",
          "value_falsy", "value_truthy", "text"}

\* One invocation of the default chain and one of each candidate.
NumAttempts == 1 + Len(GEMINI_MODEL_CANDIDATES(GEMINI_DEFAULT))

\* The for loop over _GEMINI_MODEL_CANDIDATES after the default chain raised
\* NotFound.  outs[i + 1] is what the invocation of cands[i] does.  acc is the
\* invocations made so far.  status: "raw" (a candidate returned), "None"
\* (every candidate raised NotFound), "raised" (another exception left the loop).
RECURSIVE CandidateLoopAnyError(_, _, _, _)
CandidateLoopAnyError(cands, outs, i, acc) ==
    IF i > Len(cands) THEN [status |-> "None", attempts |-> acc, won |-> "none"]
    ELSE LET a == Append(acc, [model |-> cands[i], outcome |-> outs[i + 1]])
         IN  IF outs[i + 1] = "ok"
               THEN [status |-> "raw", attempts |-> a, won |-> cands[i]]
             ELSE CandidateLoopAnyError(cands, outs, i + 1, a)

RECURSIVE CandidateLoop(_, _, _, _)
CandidateLoop(cands, outs, i, acc) ==
    IF i > Len(cands) THEN [status |-> "None", attempts |-> acc, won |-> "none"]
    ELSE LET a == Append(acc, [model |-> cands[i], outcome |-> outs[i + 1]])
         IN  IF outs[i + 1] = "NotFound" THEN CandidateLoop(cands, outs, i + 1, a)
             ELSE IF outs[i + 1] = "ok"
               THEN [status |-> "raw", attempts |-> a, won |-> cands[i]]
             ELSE [status |-> "raised", attempts |-> a, won |-> "none"]

\* chain.invoke, and the loop when it raises NotFound.  chat is the model the
\* module-level chain was built on, cands the module-level candidate list.
\* won is the candidate the loop wrote to os.environ["GEMINI_MODEL"].
InvokeWithFallback(chat, cands, outs) ==
    LET first == <<[model |-> chat, outcome |-> outs[1]]>>
    IN  IF outs[1] = "ok" THEN [status |-> "raw", attempts |-> first, won |-> "none"]
        ELSE IF outs[1] = "NotFound" THEN CandidateLoop(cands, outs, 1, first)
        ELSE [status |-> "raised", attempts |-> first, won |-> "none"]

-----------------------------------------------------------------------------
(* Query (chat_post in server.py, the User branch of ai.py) *)

\* similarity_search(question, k=8)
TopK == 8

Min(a, b) == IF a < b THEN a ELSE b

\* json.loads(raw) in _invoke_chain_with_fallback, with its except branch: what
\* the function returns for a chain that returned text.
ServerData(text) ==
    CASE text = "null" -> "None"
      [] text = "text" -> "degraded"
      [] OTHER -> text

\* chat_post after retrieval found docs: _invoke_chain_with_fallback's return
\* value, the 503 for None, and the debug block that reads data.get("answer").
ServerAnswer(inv, text) ==
    IF inv.status = "raised" THEN "ModelError"
    ELSE IF inv.status = "None" THEN "NoModelAvailable"
    ELSE LET data == ServerData(text)
         IN  CASE data = "None" -> "NoModelAvailable"
               [] data = "degraded" -> "Degraded"
               [] data = "object" -> "Structured"
               [] data = "object_answer" -> "InternalError"
               [] data \in {"object_partial", "object_empty"} -> "PartialObject"
               [] OTHER -> "NonObject"

\* chat_post from the reload of the index to the answer.  found is the number
\* of documents similarity_search returns, search_ok whether it returned.
ServerQuery(db, search_ok, found, inv, text) ==
    LET local_vs == load_faiss_or_none(db)
    IN  IF ~local_vs.present THEN "IndexNotReady"
        ELSE IF ntotal(local_vs) = 0 THEN "DatabaseEmpty"
        ELSE IF ~search_ok THEN "SearchError"
        ELSE IF found = 0 THEN "NoRelevant"
        ELSE ServerAnswer(inv, text)

\* ai.py after retrieval found docs: the st.error for raw None, json.loads with
\* data = None on failure, the raw-text branch and the rendering branch.
AiAnswer(inv, text) ==
    IF inv.status = "raised" THEN "ModelError"
    ELSE IF inv.status = "None" THEN "NoModelAvailable"
    ELSE IF text \in {"object", "object_partial", "object_answer"} THEN "Structured"
    ELSE "Degraded"

AiQueryNoDocsCheck(db, search_ok, found, inv, text) ==
    LET local_vs == load_faiss_or_none(db)
    IN  IF ~local_vs.present THEN "IndexNotReady"
        ELSE IF ~search_ok THEN "SearchError"
        ELSE AiAnswer(inv, text)

\* The User branch of ai.py from local_vs on.
AiQuery(db, search_ok, found, inv, text) ==
    LET local_vs == load_faiss_or_none(db)
    IN  IF ~local_vs.present THEN "IndexNotReady"
        ELSE IF ~search_ok THEN "SearchError"
        ELSE IF found = 0 THEN "NoRelevant"
        ELSE AiAnswer(inv, text)

\* Whether the handler reached the model.
Invoked(result) ==
    result \notin {"IndexNotReady", "DatabaseEmpty", "SearchError", "NoRelevant"}

\* The variables after a query by process p: result, the invocations made (none
\* when the handler returned before the model), os.environ written by the loop.
Queried(p, result, search_ok, found, inv, text) ==
    LET ran == Invoked(result)
        won == IF ran THEN inv.won ELSE "none"
    IN  /\ environ' = IF won = "none" THEN environ ELSE [environ EXCEPT ![p] = won]
        /\ remembered' = IF won = "none" THEN remembered
                         ELSE [remembered EXCEPT ![p] = won]
        /\ vectorstore' = IF p = "ai"
                          THEN [vectorstore EXCEPT ![p] = load_faiss_or_none(faiss_db)]
                          ELSE vectorstore
        /\ last' = [NoLast EXCEPT
                      !.op = "query", !.proc = p, !.result = result,
                      !.search_ok = search_ok, !.docs_found = found,
                      !.chat = ModuleModel(p),
                      !.attempts = IF ran THEN inv.attempts ELSE <<>>,
                      !.status = IF ran THEN inv.status ELSE "none",
                      !.text = IF ran /\ inv.status = "raw" THEN text ELSE "none",
                      !.prior = remembered[p]]
        /\ UNCHANGED <<faiss_db, temp, gemini_model, uploads, acked>>

\* What the invocations of one query do, as far as the handler gets to see:
\* j invocations raise NotFound and the next one returns or raises something
\* else, or all of them raise NotFound.  The entries after the one that ends
\* the handler are never consulted and are written "NotFound".
Script(j, x) ==
    [i \in 1..NumAttempts |-> IF i = j + 1 THEN x ELSE "NotFound"]

\* What the environment gives one query: whether and how much the search
\* returns (at most k documents), what each invocation does, and the text of
\* the invocation that returns.
QueryInputs(k) ==
    {[search_ok |-> FALSE, found |-> 0, outs |-> Script(0, "NotFound"), text |-> "none"]}
    \cup {[search_ok |-> TRUE, found |-> 0, outs |-> Script(0, "NotFound"), text |-> "none"]}
    \cup {[search_ok |-> TRUE, found |-> n, outs |-> Script(j, x), text |-> "none"] :
            n \in 1..k, j \in 0..(NumAttempts - 1), x \in {"NotFound", "Error"}}
    \cup {[search_ok |-> TRUE, found |-> n, outs |-> Script(j, "ok"), text |-> t] :
            n \in 1..k, j \in 0..(NumAttempts - 1), t \in Texts}

\* POST /chat (GET /chat calls it with the same question).
chat_post ==
    \E q \in QueryInputs(Min(TopK, ntotal(faiss_db))) :
        LET m == ModuleModel("server")
            inv == InvokeWithFallback(m, GEMINI_MODEL_CANDIDATES(m), q.outs)
        IN  Queried("server",
                    ServerQuery(faiss_db, q.search_ok, q.found, inv, q.text),
                    q.search_ok, q.found, inv, q.text)

\* The User branch of ai.py with a non-empty question.
AiUserQuery ==
    \E q \in QueryInputs(Min(TopK, ntotal(faiss_db))) :
        LET m == ModuleModel("ai")
            inv == InvokeWithFallback(m, GEMINI_MODEL_CANDIDATES(m), q.outs)
        IN  Queried("ai",
                    AiQuery(faiss_db, q.search_ok, q.found, inv, q.text),
                    q.search_ok, q.found, inv, q.text)

-----------------------------------------------------------------------------
(* The system *)

\* The index directory when the processes start: no index, an index without
\* entries, an index with a batch.
StartIndexes == {NoIndex, Index({}), Index({0})}

Init ==
    /\ faiss_db \in StartIndexes
    /\ temp = {}
    /\ vectorstore = [p \in Procs |-> load_faiss_or_none(faiss_db)]
    /\ environ \in [Procs -> StartEnviron]
    /\ gemini_model = EnvironGet(environ["server"])
    /\ uploads = 0
    /\ last = NoLast
    /\ acked = {}
    /\ remembered = [p \in Procs |-> "none"]

Next ==
    \/ admin_upload
    \/ AiAdminUpload
    \/ chat_post
    \/ AiUserQuery

Spec == Init /\ [][Next]_vars

\* The upload handlers alone.  They neither read nor write environ,
\* gemini_model and remembered, so these start at one value.
InitIngest == Init /\ environ = [p \in Procs |-> "unset"]

NextIngest ==
    \/ admin_upload
    \/ AiAdminUpload

SpecIngest == InitIngest /\ [][NextIngest]_vars

\* The query handlers alone.  They read the index directory only (present or
\* not, with entries or not) and write none of faiss_db, temp, uploads, acked
\* and server.py's vectorstore, so every index state is a starting state.
NextQuery ==
    \/ chat_post
    \/ AiUserQuery

SpecQuery == Init /\ [][NextQuery]_vars

-----------------------------------------------------------------------------
(* Properties of the query handlers, checked under SpecQuery *)

\* The order in which one query may invoke models: the chain's own model,
\* then the candidate list.
InvocationOrder(chat) == <<chat>> \o GEMINI_MODEL_CANDIDATES(chat)

\* C1: in every query that reaches the model, the models invoked are a prefix
\* of the default followed by the candidates in list order; every invocation
\* but the last raised NotFound (a success or any other failure ends the
\* query's invocations at once); if the last one raised NotFound too then every
\* candidate was tried and the query reports NoModelAvailable; if it raised
\* something else the query fails with that error.
C1_FallbackInOrder ==
    (last.op = "query" /\ last.attempts # <<>>) =>
        LET tr == last.attempts
            n == Len(tr)
            order == InvocationOrder(last.chat)
        IN  /\ n <= Len(order)
            /\ \A i \in 1..n : tr[i].model = order[i]
            /\ \A i \in 1..(n - 1) : tr[i].outcome = "NotFound"
            /\ tr[n].outcome = "NotFound" =>
                   (n = Len(order) /\ last.result = "NoModelAvailable")
            /\ tr[n].outcome = "Error" => last.result = "ModelError"
            /\ tr[n].outcome = "ok" => last.result # "ModelError"

\* A query whose default and first two candidates raised NotFound and whose
\* third candidate returned.
C1_Witness ==
    /\ last.op = "query"
    /\ Len(last.attempts) = 4
    /\ last.attempts[3].outcome = "NotFound"
    /\ last.attempts[4].outcome = "ok"

\* C2: once a fallback candidate m has succeeded in a process, the recorded
\* default of that process is m and every later query of that process that
\* reaches the model invokes m first.
C2_FallbackRemembered ==
    /\ \A p \in Procs :
          remembered[p] # "none" => EnvironGet(environ[p]) = remembered[p]
    /\ (last.op = "query" /\ last.attempts # <<>> /\ last.prior # "none") =>
          last.attempts[1].model = last.prior

C5_ReturnedTextIsAnswered ==
    (last.op = "query" /\ last.status = "raw") =>
        /\ last.result \in {"Structured", "Degraded"}
        /\ last.text = "text" => last.result = "Degraded"

\* The outcome kinds the two front-ends are compared by: an object that the
\* model returned counts as a structured answer, complete or not.
OutcomeKind(result) == IF result = "PartialObject" THEN "Structured" ELSE result

\* C10: given the same index state, retrieval result and model responses, the
\* two front-ends reach the same kind of outcome.
C10_FrontEndsAgree ==
    last.op = "query" =>
        LET inv == [status |-> last.status]
        IN  OutcomeKind(ServerQuery(faiss_db, last.search_ok, last.docs_found,
                                    inv, last.text))
            = OutcomeKind(AiQuery(faiss_db, last.search_ok, last.docs_found,
                                  inv, last.text))

\* The model identifiers one query may invoke: the default and the candidates.
Identifiers(chat) ==
    {InvocationOrder(chat)[i] : i \in 1..Len(InvocationOrder(chat))}

\* C11: within one query no model identifier is invoked twice, so a query makes
\* at most as many invocations as there are distinct identifiers among the
\* default and the candidate list.
C11_NoIdentifierInvokedTwice ==
    last.op = "query" =>
        /\ \A i, j \in 1..Len(last.attempts) :
              last.attempts[i].model = last.attempts[j].model => i = j
        /\ Len(last.attempts) <= Cardinality(Identifiers(last.chat))

-----------------------------------------------------------------------------
(* Properties of the upload handlers, checked under SpecIngest *)

\* An upload whose staged bytes were examined, or would have been had the
\* name been accepted.
HasMagic(header) == header = "%PDF-"

\* C3: for an upload with the magic header, a loader that returns documents
\* makes the upload get past extraction and is the last loader invoked, and the
\* upload fails as unreadable only if no loader returns documents.
C3_LoadersUntilNonEmpty ==
    (last.op = "upload" /\ last.read_ok /\ HasMagic(last.header)) =>
        LET docs == {i \in 1..NumLoaders : last.loads[i] = "docs"}
        IN  /\ last.result = "CannotReadPdf" => docs = {}
            /\ docs # {} => /\ last.tried \in docs
                            /\ \A i \in docs : last.tried <= i

\* The renderings of InvalidFormat: the header check's "Invalid PDF file" and
\* server.py's "Only PDF is supported" for a name that is refused unread.
InvalidFormat == {"InvalidPdfFile", "OnlyPdfSupported"}

\* C6: an upload whose bytes do not start with the magic header fails with
\* InvalidFormat without invoking a loader, changes neither the persisted index
\* nor the process's in-memory index (ai.py's is the one its run loaded from
\* the directory), and leaves no file of its name in the staging directory.
C6_InvalidHeaderNoTrace ==
    [][(/\ last'.op = "upload"
        /\ \/ last'.read_ok /\ ~HasMagic(last'.header)
           \/ ~EndsWithPdf(last'.name))
       => /\ last'.result \in InvalidFormat
          /\ last'.tried = 0
          /\ faiss_db' = faiss_db
          /\ vectorstore'["server"] = vectorstore["server"]
          /\ vectorstore'["ai"] \in {vectorstore["ai"], faiss_db}
          /\ last'.name \notin temp'
          /\ uploads' = uploads
          /\ acked' = acked]_vars

\* An upload of four bytes of the magic header was refused after an upload
\* had been acknowledged.
C6_Witness ==
    /\ last.op = "upload"
    /\ last.read_ok
    /\ last.header = "%PDF"
    /\ last.result = "InvalidPdfFile"
    /\ acked # {}

\* C7: every acknowledged batch is in the persisted index.
C7_AcknowledgedBatchesPersist == acked \subseteq faiss_db.entries

\* C8: after an upload, successful or failed, the in-memory index of the
\* process that handled it equals the persisted index.
C8_MemoryEqualsDisk ==
    last.op = "upload" => vectorstore[last.proc] = faiss_db

\* C9: the staged file is gone after every failed upload and is there after
\* every successful one.
C9_StagedFileOnlyOnSuccess ==
    last.op = "upload" =>
        /\ last.result = "ok" => last.name \in temp
        /\ last.result # "ok" => last.name \notin temp

====
